---- MODULE Spec2Model ----
(***************************************************************************)
(* Motion-to-action state machine of main.py: the PIR callbacks            *)
(* (motion_led_on / motion_led_off), the polling thread handle_motion, the *)
(* cooldown_timer threads and the capture/notify run.                      *)
(*                                                                         *)
(* Time is discrete, one unit per second.  A clock value taken with        *)
(* time.time() is stored as the time elapsed since it was taken, saturated *)
(* at the largest constant it is compared with, so that                    *)
(* time.time() - motion_start_time is the stored value itself.  Time       *)
(* advances (Tick) only while every thread is blocked: in time.sleep, in   *)
(* take_photo / send_email, or waiting for a sensor edge.  time.sleep(0.2) *)
(* is shorter than one unit, so a sleeping handler lets at most one Tick   *)
(* pass before it wakes; all orders of the threads' steps inside one unit  *)
(* are explored.                                                           *)
(***************************************************************************)
EXTENDS Integers, Sequences, FiniteSets

MOTION_THRESHOLD_SECONDS == 5
COOLDOWN_DURATION_SECONDS == 30

\* Number of motion sessions (motion_led_on callbacks) explored.
MaxSessions == 2

Sessions == 1..MaxSessions

\* Thread identities available to handle_motion; main starts MainHandlerThreads.
HandlerThreads == {1, 2}

MainHandlerThreadsTwice == {1, 2}

MainHandlerThreads == {1}

\* motion_start_time = None; a set start time is the one-element tuple <<elapsed>>.
None == << >>

\* _blink_yellow / _flash_yellow threads that may be alive at the same time.
MaxYellowTasks == 3
\* Positions of a _blink_yellow thread: the while test, toggle(), the final off().
BlinkPcs == {"l220", "l221", "l228"}
\* Positions of a _flash_yellow thread: the while test, on(), off().
FlashPcs == {"l254", "l255", "l257"}

Min(a, b) == IF a < b THEN a ELSE b

VARIABLES
    mainPc,             \* position of main(): "l494", "l499", "paused"
    pirPc,              \* position of the gpiozero callback thread
    pirActive,          \* the PIR line is high (motion present)
    motion_start_time,  \* None or <<seconds since motion_led_on stamped it>>
    cooldown_active,
    yellow_blinking,
    yellow_flash,
    leds,               \* leds[name] = TRUE when the LED is lit
    hpc,                \* position of each handle_motion thread
    email_sent,         \* handle_motion's local email_sent
    slept,              \* the handler's time.sleep(0.2) has lasted a time unit
    timers,             \* sleeping cooldown_timer threads: [id, remaining]
    greenThreads,       \* _flash_green threads started and not yet finished
    logLines,           \* lines in LOG_FILE
    \* ---- observation of sessions and runs (never read by the program) ----
    sessCount,          \* sessions stamped so far; the current one is sessCount
    mstSess,            \* session whose stamp motion_start_time holds
    sessElapsed,        \* seconds since the current session was stamped
    sessEnded,          \* motion_led_off has cleared the session
    sessLong,           \* the session lasted >= MOTION_THRESHOLD_SECONDS
    sessClean,          \* no cooldown and no run in flight when it was stamped
    sessInCooldown,     \* motion_led_on read cooldown_active = True for it
    sessInFlight,       \* a triggered run had not completed when it was stamped
    runs,               \* runs[s]: take_photo attempts made for session s
    staleRuns,          \* runs initiated after motion_led_off cleared their session
    hSess,              \* session whose stamp the handler used at line 449
    outcome,            \* outcome of the handler's run in progress / just ended
    runLines,           \* lines the handler's run has appended to LOG_FILE
    logWrite,           \* the run's append in log_photo_path: "none", "ok", "raised"
    runGreen,           \* _flash_green threads the handler's run has started
    runTimers,          \* cooldown_timer threads the handler's run has started
    cooldownElapsed,    \* seconds since the latest cooldown_timer start (saturated)
    attempts,           \* take_photo / send_email calls made since the handler woke
    \* ---- the yellow LED's daemon threads ----
    yellowTasks,        \* yellowTasks[pc]: _blink_yellow / _flash_yellow threads at pc
    yellowStarts,       \* observation: what the latest start_* call found running
    \* ---- cleanup() ----
    cleanupCall,        \* calls of cleanup() entered so far
    cleanupPc,          \* position inside cleanup()
    cleanupLed,         \* index of the LED the loop of cleanup() is at
    attempted,          \* release steps the current call has attempted
    failed,             \* release steps of the current call that raised
    closed,             \* devices whose close() has succeeded
    picam2,             \* TRUE while the global picam2 is not None
    cleanupRaised       \* an exception other than SystemExit left cleanup()

progVars == <<mainPc, pirPc, pirActive, motion_start_time, cooldown_active,
              yellow_blinking, yellow_flash, leds, hpc, email_sent, slept,
              timers, greenThreads, logLines>>
obsVars == <<sessCount, mstSess, sessElapsed, sessEnded, sessLong, sessClean,
             sessInCooldown, sessInFlight, runs, staleRuns, hSess, outcome, runLines,
             logWrite, runGreen, runTimers, cooldownElapsed, attempts>>
yellowVars == <<yellowTasks, yellowStarts>>
cleanupVars == <<cleanupCall, cleanupPc, cleanupLed, attempted, failed, closed,
                 picam2, cleanupRaised>>
auxVars == <<yellowVars, cleanupVars>>
vars == <<progVars, obsVars, auxVars>>

\* Handler positions between the threshold decision and the end of the try block.
RunPcs == {"take_photo", "send_email"}
FinallyPcs == {"l462", "l464", "l465", "l466", "l467"}
\* Handler positions from the threshold decision to the end of finally: a run
\* has been triggered and has not completed.
InFlightPcs == {"l451", "l453", "l456"} \cup RunPcs \cup FinallyPcs
\* Handler positions in which the thread is blocked and time may pass.
BlockedPcs == {"l468", "take_photo", "send_email", "dead", "unstarted"}

\* No _blink_yellow or _flash_yellow thread exists before the first start_*.
InitYellow ==
    /\ yellowTasks = [pc \in BlinkPcs \cup FlashPcs |-> 0]
    /\ yellowStarts = "none"

\* cleanup() has not been called; gpiozero devices are open.
InitCleanup ==
    /\ cleanupCall = 0
    /\ cleanupPc = "none"
    /\ cleanupLed = 1
    /\ attempted = {}
    /\ failed = {}
    /\ closed = {}
    /\ picam2 = TRUE
    /\ cleanupRaised = FALSE

NoAttempts == [photo |-> 0, email |-> 0]

Init ==
    /\ mainPc = "l494"
    /\ pirPc = "idle"
    /\ pirActive = FALSE
    /\ motion_start_time = None
    /\ cooldown_active = FALSE
    /\ yellow_blinking = FALSE
    /\ yellow_flash = FALSE
    /\ leds = [c \in {"red", "yellow", "green"} |-> FALSE]
    /\ hpc = [h \in HandlerThreads |-> "unstarted"]
    /\ email_sent = [h \in HandlerThreads |-> FALSE]
    /\ slept = [h \in HandlerThreads |-> FALSE]
    /\ timers = {}
    /\ greenThreads = 0
    /\ logLines = 0
    /\ sessCount = 0
    /\ mstSess = 0
    /\ sessElapsed = 0
    /\ sessEnded = [s \in Sessions |-> FALSE]
    /\ sessLong = [s \in Sessions |-> FALSE]
    /\ sessClean = [s \in Sessions |-> FALSE]
    /\ sessInCooldown = [s \in Sessions |-> FALSE]
    /\ sessInFlight = [s \in Sessions |-> FALSE]
    /\ runs = [s \in Sessions |-> 0]
    /\ staleRuns = 0
    /\ hSess = [h \in HandlerThreads |-> 0]
    /\ outcome = [h \in HandlerThreads |-> "none"]
    /\ runLines = [h \in HandlerThreads |-> 0]
    /\ logWrite = [h \in HandlerThreads |-> "none"]
    /\ runGreen = [h \in HandlerThreads |-> 0]
    /\ runTimers = [h \in HandlerThreads |-> 0]
    /\ cooldownElapsed = COOLDOWN_DURATION_SECONDS
    /\ attempts = [h \in HandlerThreads |-> NoAttempts]
    /\ InitYellow
    /\ InitCleanup


sessObs == <<sessCount, mstSess, sessElapsed, sessEnded, sessLong, sessClean,
             sessInCooldown, sessInFlight>>
runObs == <<runs, staleRuns, hSess, outcome, runLines, logWrite, runGreen,
            runTimers, attempts>>
handlerVars == <<hpc, email_sent, slept>>
flagVars == <<cooldown_active, yellow_blinking, yellow_flash, leds>>
sideVars == <<timers, greenThreads, logLines, cooldownElapsed>>

\* Handler positions from which no run is committed yet.
PollPcs == {"l448", "l448c", "l449", "l468"}

(***************************************************************************)
(* main()                                                                  *)
(***************************************************************************)
\* pir.when_motion / pir.when_no_motion are registered.
main_register_callbacks ==
    /\ mainPc = "l494"
    /\ mainPc' = "l499"
    /\ UNCHANGED <<auxVars, pirPc, pirActive, motion_start_time, flagVars,
                   handlerVars, sideVars, sessObs, runObs>>

\* threading.Thread(target=handle_motion, daemon=True).start()
main_start_handler ==
    /\ mainPc = "l499"
    /\ mainPc' = "paused"
    /\ hpc' = [h \in HandlerThreads |->
                 IF h \in MainHandlerThreads THEN "l448" ELSE hpc[h]]
    /\ UNCHANGED <<auxVars, pirPc, pirActive, motion_start_time, flagVars,
                   email_sent, slept, sideVars, sessObs, runObs>>

(***************************************************************************)
(* Sensor edges and the callbacks motion_led_on / motion_led_off, run one  *)
(* at a time by the sensor's callback thread.                              *)
(***************************************************************************)
\* start_red(): leds["red"].on()
start_red == [leds EXCEPT !["red"] = TRUE]

\* A stop_red that leaves the LED as it is.
stop_red_kept == leds

\* stop_red(): leds["red"].off()
stop_red == [leds EXCEPT !["red"] = FALSE]

\* Rising edge: when_motion fires and motion_led_on is entered.
motion_detected ==
    /\ mainPc # "l494"
    /\ pirPc = "idle"
    /\ ~pirActive
    /\ sessCount < MaxSessions
    /\ pirActive' = TRUE
    /\ pirPc' = "l193"
    /\ UNCHANGED <<auxVars, mainPc, motion_start_time, flagVars, handlerVars,
                   sideVars, sessObs, runObs>>

motion_led_on_start_red ==
    /\ pirPc = "l193"
    /\ leds' = start_red
    /\ pirPc' = "l194"
    /\ UNCHANGED <<auxVars, mainPc, pirActive, motion_start_time,
                   cooldown_active, yellow_blinking, yellow_flash, handlerVars,
                   sideVars, sessObs, runObs>>

\* motion_start_time = time.time()
motion_led_on_stamp ==
    /\ pirPc = "l194"
    /\ motion_start_time' = <<0>>
    /\ pirPc' = "l195"
    /\ sessCount' = sessCount + 1
    /\ mstSess' = sessCount + 1
    /\ sessElapsed' = 0
    /\ sessClean' = [sessClean EXCEPT ![sessCount + 1] =
                       /\ ~cooldown_active
                       /\ \A h \in MainHandlerThreads : hpc[h] \in PollPcs]
    /\ sessInFlight' = [sessInFlight EXCEPT ![sessCount + 1] =
                          \E h \in MainHandlerThreads : hpc[h] \in InFlightPcs]
    /\ UNCHANGED <<auxVars, mainPc, pirActive, flagVars, handlerVars, sideVars,
                   sessEnded, sessLong, sessInCooldown, runObs>>

\* if not cooldown_active:
motion_led_on_check_cooldown ==
    /\ pirPc = "l195"
    /\ pirPc' = IF cooldown_active THEN "idle" ELSE "l196"
    /\ sessInCooldown' = [sessInCooldown EXCEPT ![sessCount] = cooldown_active]
    /\ UNCHANGED <<auxVars, mainPc, pirActive, motion_start_time, flagVars,
                   handlerVars, sideVars, sessCount, mstSess, sessElapsed,
                   sessEnded, sessLong, sessClean, sessInFlight, runObs>>

\* start_yellow_blink(): yellow_blinking = True (the blink task is started).
motion_led_on_start_yellow_blink ==
    /\ pirPc = "l196"
    /\ yellow_blinking' = TRUE
    /\ pirPc' = "idle"
    /\ UNCHANGED <<auxVars, mainPc, pirActive, motion_start_time,
                   cooldown_active, yellow_flash, leds, handlerVars, sideVars,
                   sessObs, runObs>>

\* Falling edge: when_no_motion fires and motion_led_off is entered.
motion_stopped ==
    /\ pirPc = "idle"
    /\ pirActive
    /\ pirActive' = FALSE
    /\ pirPc' = "l204"
    /\ UNCHANGED <<auxVars, mainPc, motion_start_time, flagVars, handlerVars,
                   sideVars, sessObs, runObs>>

motion_led_off_stop_red ==
    /\ pirPc = "l204"
    /\ leds' = stop_red
    /\ pirPc' = "l205"
    /\ UNCHANGED <<auxVars, mainPc, pirActive, motion_start_time,
                   cooldown_active, yellow_blinking, yellow_flash, handlerVars,
                   sideVars, sessObs, runObs>>

motion_led_off_stop_yellow_blink ==
    /\ pirPc = "l205"
    /\ yellow_blinking' = FALSE
    /\ pirPc' = "l206"
    /\ UNCHANGED <<auxVars, mainPc, pirActive, motion_start_time,
                   cooldown_active, yellow_flash, leds, handlerVars, sideVars,
                   sessObs, runObs>>

\* The value motion_led_off leaves in motion_start_time (line 206).
motion_led_off_kept == motion_start_time

motion_led_off_cleared == None

\* motion_start_time = None; the session is over.
motion_led_off_clear ==
    /\ pirPc = "l206"
    /\ motion_start_time' = motion_led_off_cleared
    /\ mstSess' = IF motion_start_time' = None THEN 0 ELSE mstSess
    /\ pirPc' = "idle"
    /\ sessEnded' = [sessEnded EXCEPT ![sessCount] = TRUE]
    /\ sessLong' = [sessLong EXCEPT ![sessCount] =
                      sessElapsed >= MOTION_THRESHOLD_SECONDS]
    /\ sessElapsed' = 0
    /\ UNCHANGED <<auxVars, mainPc, pirActive, flagVars, handlerVars, sideVars,
                   sessCount, sessClean, sessInCooldown, sessInFlight, runObs>>

(***************************************************************************)
(* handle_motion(): the polling loop, one step per shared-variable access. *)
(***************************************************************************)
\* if motion_start_time ...: a time.time() stamp is never 0.0, so the stamp
\* is truthy exactly when it is not None.
handle_motion_read_start(h) ==
    /\ hpc[h] = "l448"
    /\ hpc' = [hpc EXCEPT ![h] =
                 IF motion_start_time # None THEN "l448c" ELSE "l468"]
    /\ UNCHANGED <<auxVars, mainPc, pirPc, pirActive, motion_start_time,
                   flagVars, email_sent, slept, sideVars, sessObs, runObs>>

\* The cooldown gate of line 448 as a bug would leave it: always open.
cooldown_gate_open(active) == TRUE

\* ... and not cooldown_active
cooldown_gate(active) == ~active

handle_motion_read_cooldown(h) ==
    /\ hpc[h] = "l448c"
    /\ hpc' = [hpc EXCEPT ![h] =
                 IF cooldown_gate(cooldown_active) THEN "l449" ELSE "l468"]
    /\ UNCHANGED <<auxVars, mainPc, pirPc, pirActive, motion_start_time,
                   flagVars, email_sent, slept, sideVars, sessObs, runObs>>

\* duration = time.time() - motion_start_time; if duration >= threshold.
\* The second read of motion_start_time raises TypeError on None, outside the
\* try block: the thread ends.
handle_motion_duration(h) ==
    /\ hpc[h] = "l449"
    /\ IF motion_start_time = None
         THEN /\ hpc' = [hpc EXCEPT ![h] = "dead"]
              /\ UNCHANGED hSess
         ELSE /\ hpc' = [hpc EXCEPT ![h] =
                           IF motion_start_time[1] >= MOTION_THRESHOLD_SECONDS
                             THEN "l451" ELSE "l468"]
              /\ hSess' = [hSess EXCEPT ![h] = mstSess]
    /\ UNCHANGED <<auxVars, attempts, mainPc, pirPc, pirActive,
                   motion_start_time, flagVars, email_sent, slept, sideVars,
                   sessObs, runs, staleRuns, outcome, runLines, logWrite,
                   runGreen, runTimers>>

\* stop_yellow_blink()
handle_motion_stop_yellow_blink(h) ==
    /\ hpc[h] = "l451"
    /\ yellow_blinking' = FALSE
    /\ hpc' = [hpc EXCEPT ![h] = "l453"]
    /\ UNCHANGED <<auxVars, mainPc, pirPc, pirActive, motion_start_time,
                   cooldown_active, yellow_flash, leds, email_sent, slept,
                   sideVars, sessObs, runObs>>

\* start_flash_yellow(); email_sent = False
handle_motion_start_flash_yellow(h) ==
    /\ hpc[h] = "l453"
    /\ yellow_flash' = TRUE
    /\ email_sent' = [email_sent EXCEPT ![h] = FALSE]
    /\ hpc' = [hpc EXCEPT ![h] = "l456"]
    /\ UNCHANGED <<auxVars, mainPc, pirPc, pirActive, motion_start_time,
                   cooldown_active, yellow_blinking, leds, slept, sideVars,
                   sessObs, runObs>>

\* try: photo_file = take_photo() is entered: the run is initiated.
handle_motion_take_photo(h) ==
    /\ hpc[h] = "l456"
    /\ hpc' = [hpc EXCEPT ![h] = "take_photo"]
    /\ runs' = [runs EXCEPT ![hSess[h]] = @ + 1]
    /\ staleRuns' = IF sessEnded[hSess[h]] THEN staleRuns + 1 ELSE staleRuns
    /\ outcome' = [outcome EXCEPT ![h] = "running"]
    /\ runLines' = [runLines EXCEPT ![h] = 0]
    /\ logWrite' = [logWrite EXCEPT ![h] = "none"]
    /\ runGreen' = [runGreen EXCEPT ![h] = 0]
    /\ runTimers' = [runTimers EXCEPT ![h] = 0]
    /\ attempts' = [attempts EXCEPT ![h].photo = @ + 1]
    /\ UNCHANGED <<auxVars, mainPc, pirPc, pirActive, motion_start_time,
                   flagVars, email_sent, slept, sideVars, sessObs, hSess>>

\* log_photo_path: the append either succeeds or raises and is caught (165-170).
log_photo_path(written) == IF written THEN logLines + 1 ELSE logLines

\* save_photo without its call of log_photo_path.
save_photo_unlogged(written) == logLines

\* save_photo: the photo is written, then log_photo_path is called.
save_photo(written) == log_photo_path(written)

\* An except clause that starts the try block over.
except_retry == "l456"

\* except Exception: the error is logged and control passes to finally (459-461).
except_clause == "l462"

\* take_photo raises (camera not initialised, capture or save error, LOGS_DIR
\* cannot be created): except clause, then finally.
take_photo_raise(h) ==
    /\ hpc[h] = "take_photo"
    /\ hpc' = [hpc EXCEPT ![h] = except_clause]
    /\ outcome' = [outcome EXCEPT ![h] = "CaptureFailed"]
    /\ UNCHANGED <<auxVars, attempts, mainPc, pirPc, pirActive,
                   motion_start_time, flagVars, email_sent, slept, sideVars,
                   sessObs, runs, staleRuns, hSess, runLines, logWrite,
                   runGreen, runTimers>>

\* take_photo returns the file name; send_email(photo_file) is entered.
take_photo_return(h) ==
    /\ hpc[h] = "take_photo"
    /\ \E written \in BOOLEAN :
         /\ logLines' = save_photo(written)
         /\ logWrite' = [logWrite EXCEPT ![h] =
                           IF written THEN "ok" ELSE "raised"]
    /\ runLines' = [runLines EXCEPT ![h] = @ + (logLines' - logLines)]
    /\ hpc' = [hpc EXCEPT ![h] = "send_email"]
    /\ outcome' = [outcome EXCEPT ![h] = "captured"]
    /\ attempts' = [attempts EXCEPT ![h].email = @ + 1]
    /\ UNCHANGED <<auxVars, mainPc, pirPc, pirActive, motion_start_time,
                   flagVars, email_sent, slept, timers, greenThreads,
                   cooldownElapsed, sessObs, runs, staleRuns, hSess, runGreen,
                   runTimers>>

\* send_email raises: except clause, then finally.
send_email_raise(h) ==
    /\ hpc[h] = "send_email"
    /\ hpc' = [hpc EXCEPT ![h] = except_clause]
    /\ outcome' = [outcome EXCEPT ![h] = "NotifyFailed"]
    /\ UNCHANGED <<auxVars, attempts, mainPc, pirPc, pirActive,
                   motion_start_time, flagVars, email_sent, slept, sideVars,
                   sessObs, runs, staleRuns, hSess, runLines, logWrite,
                   runGreen, runTimers>>

\* send_email returns; email_sent = True.
send_email_return(h) ==
    /\ hpc[h] = "send_email"
    /\ email_sent' = [email_sent EXCEPT ![h] = TRUE]
    /\ hpc' = [hpc EXCEPT ![h] = "l462"]
    /\ outcome' = [outcome EXCEPT ![h] = "Success"]
    /\ UNCHANGED <<auxVars, attempts, mainPc, pirPc, pirActive,
                   motion_start_time, flagVars, slept, sideVars, sessObs, runs,
                   staleRuns, hSess, runLines, logWrite, runGreen, runTimers>>

\* flash_green() called whatever email_sent holds.
flash_green_unconditional(sent) == TRUE

\* finally: if email_sent:
flash_green_condition(sent) == sent

\* flash_green() starts one _flash_green thread.
handle_motion_flash_green(h) ==
    /\ hpc[h] = "l462"
    /\ greenThreads' = IF flash_green_condition(email_sent[h])
                         THEN greenThreads + 1 ELSE greenThreads
    /\ runGreen' = [runGreen EXCEPT ![h] = @ + (greenThreads' - greenThreads)]
    /\ hpc' = [hpc EXCEPT ![h] = "l464"]
    /\ UNCHANGED <<auxVars, attempts, mainPc, pirPc, pirActive,
                   motion_start_time, flagVars, email_sent, slept, timers,
                   logLines, cooldownElapsed, sessObs, runs, staleRuns, hSess,
                   outcome, runLines, logWrite, runTimers>>

\* A finally block that leaves the flash requested.
stop_flash_yellow_kept == yellow_flash

\* stop_flash_yellow(): yellow_flash = False
stop_flash_yellow == FALSE

\* stop_flash_yellow(): yellow_flash = False; leds["yellow"].off()
handle_motion_stop_flash_yellow(h) ==
    /\ hpc[h] = "l464"
    /\ yellow_flash' = stop_flash_yellow
    /\ leds' = [leds EXCEPT !["yellow"] = FALSE]
    /\ hpc' = [hpc EXCEPT ![h] = "l465"]
    /\ UNCHANGED <<auxVars, mainPc, pirPc, pirActive, motion_start_time,
                   cooldown_active, yellow_blinking, email_sent, slept,
                   sideVars, sessObs, runObs>>

\* cooldown_active = True
handle_motion_set_cooldown(h) ==
    /\ hpc[h] = "l465"
    /\ cooldown_active' = TRUE
    /\ hpc' = [hpc EXCEPT ![h] = "l466"]
    /\ UNCHANGED <<auxVars, mainPc, pirPc, pirActive, motion_start_time,
                   yellow_blinking, yellow_flash, leds, email_sent, slept,
                   sideVars, sessObs, runObs>>

\* A cooldown_timer that sleeps only for the motion threshold.
cooldown_timer_sleep_threshold == MOTION_THRESHOLD_SECONDS

\* time.sleep(COOLDOWN_DURATION_SECONDS) in cooldown_timer
cooldown_timer_sleep == COOLDOWN_DURATION_SECONDS

\* An identity for a new cooldown_timer thread.
FreshTimerId ==
    CHOOSE i \in 1..(Cardinality(timers) + 1) : \A tm \in timers : tm.id # i

\* threading.Thread(target=cooldown_timer, daemon=True).start(): the new
\* thread logs and goes to sleep.
handle_motion_start_cooldown_timer(h) ==
    /\ hpc[h] = "l466"
    /\ timers' = timers \cup {[id |-> FreshTimerId,
                               remaining |-> cooldown_timer_sleep]}
    /\ runTimers' = [runTimers EXCEPT ![h] = @ + 1]
    /\ cooldownElapsed' = 0
    /\ hpc' = [hpc EXCEPT ![h] = "l467"]
    /\ UNCHANGED <<auxVars, attempts, mainPc, pirPc, pirActive,
                   motion_start_time, flagVars, email_sent, slept,
                   greenThreads, logLines, sessObs, runs, staleRuns, hSess,
                   outcome, runLines, logWrite, runGreen>>

\* The finally block without its reset_motion_timer() call.
reset_motion_timer_skipped == motion_start_time

\* reset_motion_timer(): motion_start_time = None
reset_motion_timer == None

handle_motion_reset_motion_timer(h) ==
    /\ hpc[h] = "l467"
    /\ motion_start_time' = reset_motion_timer
    /\ mstSess' = IF motion_start_time' = None THEN 0 ELSE mstSess
    /\ hpc' = [hpc EXCEPT ![h] = "l468"]
    /\ UNCHANGED <<auxVars, mainPc, pirPc, pirActive, flagVars, email_sent,
                   slept, sideVars, sessCount, sessElapsed, sessEnded,
                   sessLong, sessClean, sessInCooldown, sessInFlight, runObs>>

\* time.sleep(0.2) returns and the loop starts over at line 448.
handle_motion_sleep(h) ==
    /\ hpc[h] = "l468"
    /\ hpc' = [hpc EXCEPT ![h] = "l448"]
    /\ slept' = [slept EXCEPT ![h] = FALSE]
    /\ outcome' = [outcome EXCEPT ![h] = "none"]
    /\ runLines' = [runLines EXCEPT ![h] = 0]
    /\ logWrite' = [logWrite EXCEPT ![h] = "none"]
    /\ runGreen' = [runGreen EXCEPT ![h] = 0]
    /\ runTimers' = [runTimers EXCEPT ![h] = 0]
    /\ attempts' = [attempts EXCEPT ![h] = NoAttempts]
    /\ UNCHANGED <<auxVars, mainPc, pirPc, pirActive, motion_start_time,
                   flagVars, email_sent, sideVars, sessObs, runs, staleRuns,
                   hSess>>

(***************************************************************************)
(* _flash_green(): GREEN_FLASH_COUNT on/off cycles, 0.6 s in all, then the *)
(* thread ends with the LED off.                                           *)
(***************************************************************************)
flash_green_thread ==
    /\ greenThreads > 0
    /\ greenThreads' = greenThreads - 1
    /\ leds' = [leds EXCEPT !["green"] = FALSE]
    /\ UNCHANGED <<auxVars, mainPc, pirPc, pirActive, motion_start_time,
                   cooldown_active, yellow_blinking, yellow_flash, handlerVars,
                   timers, logLines, cooldownElapsed, sessObs, runObs>>

(***************************************************************************)
(* cooldown_timer(): after its sleep, cooldown_active = False.             *)
(***************************************************************************)
\* A cooldown_timer that ends without clearing the flag.
cooldown_timer_kept == cooldown_active

\* cooldown_timer: cooldown_active = False
cooldown_timer_clear == FALSE

cooldown_timer(tm) ==
    /\ tm \in timers
    /\ tm.remaining = 0
    /\ cooldown_active' = cooldown_timer_clear
    /\ timers' = timers \ {tm}
    /\ UNCHANGED <<auxVars, mainPc, pirPc, pirActive, motion_start_time,
                   yellow_blinking, yellow_flash, leds, handlerVars,
                   greenThreads, logLines, cooldownElapsed, sessObs, runObs>>

(***************************************************************************)
(* One second passes.  Every thread is blocked; a handler in               *)
(* time.sleep(0.2) has not yet slept through a whole second, an expired    *)
(* cooldown_timer has already run and a green flash has finished.          *)
(***************************************************************************)
Tick ==
    /\ mainPc = "paused"
    /\ pirPc = "idle"
    /\ \A h \in HandlerThreads :
         /\ hpc[h] \in BlockedPcs
         /\ hpc[h] = "l468" => ~slept[h]
    /\ \A tm \in timers : tm.remaining > 0
    /\ greenThreads = 0
    /\ motion_start_time' =
         IF motion_start_time = None THEN None
         ELSE <<Min(motion_start_time[1] + 1, MOTION_THRESHOLD_SECONDS)>>
    /\ timers' = {[id |-> tm.id, remaining |-> tm.remaining - 1] : tm \in timers}
    /\ slept' = [h \in HandlerThreads |-> hpc[h] = "l468"]
    /\ sessElapsed' = IF pirActive
                        THEN Min(sessElapsed + 1, MOTION_THRESHOLD_SECONDS)
                        ELSE sessElapsed
    /\ cooldownElapsed' = Min(cooldownElapsed + 1, COOLDOWN_DURATION_SECONDS)
    /\ UNCHANGED <<auxVars, mainPc, pirPc, pirActive, flagVars, hpc,
                   email_sent, greenThreads, logLines, sessCount, mstSess,
                   sessEnded, sessLong, sessClean, sessInCooldown,
                   sessInFlight, runObs>>

Next ==
    \/ main_register_callbacks
    \/ main_start_handler
    \/ motion_detected
    \/ motion_led_on_start_red
    \/ motion_led_on_stamp
    \/ motion_led_on_check_cooldown
    \/ motion_led_on_start_yellow_blink
    \/ motion_stopped
    \/ motion_led_off_stop_red
    \/ motion_led_off_stop_yellow_blink
    \/ motion_led_off_clear
    \/ \E h \in HandlerThreads : handle_motion_read_start(h)
    \/ \E h \in HandlerThreads : handle_motion_read_cooldown(h)
    \/ \E h \in HandlerThreads : handle_motion_duration(h)
    \/ \E h \in HandlerThreads : handle_motion_stop_yellow_blink(h)
    \/ \E h \in HandlerThreads : handle_motion_start_flash_yellow(h)
    \/ \E h \in HandlerThreads : handle_motion_take_photo(h)
    \/ \E h \in HandlerThreads : take_photo_raise(h)
    \/ \E h \in HandlerThreads : take_photo_return(h)
    \/ \E h \in HandlerThreads : send_email_raise(h)
    \/ \E h \in HandlerThreads : send_email_return(h)
    \/ \E h \in HandlerThreads : handle_motion_flash_green(h)
    \/ \E h \in HandlerThreads : handle_motion_stop_flash_yellow(h)
    \/ \E h \in HandlerThreads : handle_motion_set_cooldown(h)
    \/ \E h \in HandlerThreads : handle_motion_start_cooldown_timer(h)
    \/ \E h \in HandlerThreads : handle_motion_reset_motion_timer(h)
    \/ \E h \in HandlerThreads : handle_motion_sleep(h)
    \/ flash_green_thread
    \/ \E tm \in timers : cooldown_timer(tm)
    \/ Tick

Spec == Init /\ [][Next]_vars

\* The steps of the sensor's callback thread inside a callback.
CallbackStep ==
    \/ motion_led_on_start_red
    \/ motion_led_on_stamp
    \/ motion_led_on_check_cooldown
    \/ motion_led_on_start_yellow_blink
    \/ motion_led_off_stop_red
    \/ motion_led_off_stop_yellow_blink
    \/ motion_led_off_clear

\* The steps of a handle_motion thread other than the return or the failure
\* of take_photo and send_email, which may take any time.
HandlerStep(h) ==
    \/ handle_motion_read_start(h)
    \/ handle_motion_read_cooldown(h)
    \/ handle_motion_duration(h)
    \/ handle_motion_stop_yellow_blink(h)
    \/ handle_motion_start_flash_yellow(h)
    \/ handle_motion_take_photo(h)
    \/ handle_motion_flash_green(h)
    \/ handle_motion_stop_flash_yellow(h)
    \/ handle_motion_set_cooldown(h)
    \/ handle_motion_start_cooldown_timer(h)
    \/ handle_motion_reset_motion_timer(h)
    \/ handle_motion_sleep(h)

\* Every started thread is scheduled, a cooldown_timer whose sleep is over
\* runs, and time goes on.
SpecFair ==
    /\ Spec
    /\ WF_vars(main_register_callbacks \/ main_start_handler)
    /\ WF_vars(CallbackStep)
    /\ \A h \in HandlerThreads : WF_vars(HandlerStep(h))
    /\ WF_vars(flash_green_thread)
    /\ WF_vars(\E tm \in timers : cooldown_timer(tm))
    /\ SF_vars(Tick)

(***************************************************************************)
(* The yellow LED and its daemon threads.  This specification follows the  *)
(* same callbacks and the same handler, without the clock: a stamp may be  *)
(* of any age when the handler reads it, a running capture and a sleeping  *)
(* cooldown_timer or yellow thread may take any time.                      *)
(***************************************************************************)
\* _blink_yellow / _flash_yellow threads that have not ended.
LiveYellowTasks == yellowTasks["l220"] + yellowTasks["l221"] + yellowTasks["l228"]
                   + yellowTasks["l254"] + yellowTasks["l255"] + yellowTasks["l257"]

\* Callers that are about to start a yellow thread.
YellowStarters ==
    (IF pirPc \in {"l193", "l194", "l195", "l196", "l230"} THEN 1 ELSE 0)
    + Cardinality({h \in HandlerThreads : hpc[h] \in {"l451", "l453", "l261"}})

\* There is room for one more yellow thread.
YellowRoom == LiveYellowTasks + YellowStarters < MaxYellowTasks

yellowFrame == <<mainPc, email_sent, slept, greenThreads, logLines, sessObs,
                 runObs, cooldownElapsed, cleanupVars>>

\* threading.Thread(target=..., daemon=True).start(): a thread at position pc.
StartYellowTask(pc) ==
    /\ yellowTasks' = [yellowTasks EXCEPT ![pc] = @ + 1]
    /\ yellowStarts' = IF LiveYellowTasks > 0 THEN "overlap" ELSE "clear"

\* A thread at position from moves to position to, or ends when to = "end".
MoveYellowTask(from, to) ==
    /\ yellowTasks[from] > 0
    /\ yellowTasks' = [pc \in DOMAIN yellowTasks |->
                         IF pc = from THEN yellowTasks[pc] - 1
                         ELSE IF pc = to THEN yellowTasks[pc] + 1
                         ELSE yellowTasks[pc]]

\* Rising edge: when_motion fires and motion_led_on is entered.
Y_motion_detected ==
    /\ mainPc # "l494"
    /\ pirPc = "idle"
    /\ ~pirActive
    /\ YellowRoom
    /\ pirActive' = TRUE
    /\ pirPc' = "l193"
    /\ UNCHANGED <<yellowFrame, motion_start_time, flagVars, hpc, timers,
                   yellowVars>>

\* motion_start_time = time.time()
Y_motion_led_on_stamp ==
    /\ pirPc = "l194"
    /\ motion_start_time' = <<0>>
    /\ pirPc' = "l195"
    /\ UNCHANGED <<yellowFrame, pirActive, flagVars, hpc, timers, yellowVars>>

\* if not cooldown_active:
Y_motion_led_on_check_cooldown ==
    /\ pirPc = "l195"
    /\ pirPc' = IF cooldown_active THEN "idle" ELSE "l196"
    /\ UNCHANGED <<yellowFrame, pirActive, motion_start_time, flagVars, hpc,
                   timers, yellowVars>>

\* start_yellow_blink(): yellow_blinking = True
Y_start_yellow_blink_flag ==
    /\ pirPc = "l196"
    /\ yellow_blinking' = TRUE
    /\ pirPc' = "l230"
    /\ UNCHANGED <<yellowFrame, pirActive, motion_start_time, cooldown_active,
                   yellow_flash, leds, hpc, timers, yellowVars>>

\* start_yellow_blink(): threading.Thread(target=_blink_yellow).start()
Y_start_yellow_blink_thread ==
    /\ pirPc = "l230"
    /\ StartYellowTask("l220")
    /\ pirPc' = "idle"
    /\ UNCHANGED <<yellowFrame, pirActive, motion_start_time, flagVars, hpc,
                   timers>>

\* motion_led_off: motion_start_time = None
Y_motion_led_off_clear ==
    /\ pirPc = "l206"
    /\ motion_start_time' = motion_led_off_cleared
    /\ pirPc' = "idle"
    /\ UNCHANGED <<yellowFrame, pirActive, flagVars, hpc, timers, yellowVars>>

\* duration = time.time() - motion_start_time; if duration >= threshold:
\* the stamp may be of any age.  On None the subtraction raises TypeError.
Y_handle_motion_duration(h) ==
    /\ hpc[h] = "l449"
    /\ IF motion_start_time = None
         THEN hpc' = [hpc EXCEPT ![h] = "dead"]
         ELSE \E reached \in BOOLEAN :
                 /\ reached => YellowRoom
                 /\ hpc' = [hpc EXCEPT ![h] = IF reached THEN "l451" ELSE "l468"]
    /\ UNCHANGED <<yellowFrame, pirPc, pirActive, motion_start_time, flagVars,
                   timers, yellowVars>>

\* start_flash_yellow(): yellow_flash = True
Y_start_flash_yellow_flag(h) ==
    /\ hpc[h] = "l453"
    /\ yellow_flash' = TRUE
    /\ hpc' = [hpc EXCEPT ![h] = "l261"]
    /\ UNCHANGED <<yellowFrame, pirPc, pirActive, motion_start_time,
                   cooldown_active, yellow_blinking, leds, timers, yellowVars>>

\* start_flash_yellow(): threading.Thread(target=_flash_yellow).start(); then
\* the try block is entered.
Y_start_flash_yellow_thread(h) ==
    /\ hpc[h] = "l261"
    /\ StartYellowTask("l254")
    /\ hpc' = [hpc EXCEPT ![h] = "take_photo"]
    /\ UNCHANGED <<yellowFrame, pirPc, pirActive, motion_start_time, flagVars,
                   timers>>

\* take_photo and send_email return or raise; finally is entered and
\* flash_green, which leaves the yellow LED alone, is passed.
Y_run_ends(h) ==
    /\ hpc[h] = "take_photo"
    /\ hpc' = [hpc EXCEPT ![h] = "l464"]
    /\ UNCHANGED <<yellowFrame, pirPc, pirActive, motion_start_time, flagVars,
                   timers, yellowVars>>

\* stop_flash_yellow(): yellow_flash = False
Y_stop_flash_yellow_flag(h) ==
    /\ hpc[h] = "l464"
    /\ yellow_flash' = FALSE
    /\ hpc' = [hpc EXCEPT ![h] = "l271"]
    /\ UNCHANGED <<yellowFrame, pirPc, pirActive, motion_start_time,
                   cooldown_active, yellow_blinking, leds, timers, yellowVars>>

\* stop_flash_yellow(): leds["yellow"].off()
Y_stop_flash_yellow_off(h) ==
    /\ hpc[h] = "l271"
    /\ leds' = [leds EXCEPT !["yellow"] = FALSE]
    /\ hpc' = [hpc EXCEPT ![h] = "l465"]
    /\ UNCHANGED <<yellowFrame, pirPc, pirActive, motion_start_time,
                   cooldown_active, yellow_blinking, yellow_flash, timers,
                   yellowVars>>

\* cooldown_timer: its sleep is over; cooldown_active = False
Y_cooldown_timer(tm) ==
    /\ tm \in timers
    /\ cooldown_active' = cooldown_timer_clear
    /\ timers' = timers \ {tm}
    /\ UNCHANGED <<yellowFrame, pirPc, pirActive, motion_start_time,
                   yellow_blinking, yellow_flash, leds, hpc, yellowVars>>

yellowTaskFrame == <<yellowFrame, pirPc, pirActive, motion_start_time, hpc,
                     timers, cooldown_active, yellow_blinking, yellow_flash,
                     yellowStarts>>

\* _blink_yellow: while yellow_blinking:
blink_yellow_test ==
    /\ MoveYellowTask("l220", IF yellow_blinking THEN "l221" ELSE "l228")
    /\ UNCHANGED <<yellowTaskFrame, leds>>

\* _blink_yellow: leds["yellow"].toggle(); time.sleep(0.5)
blink_yellow_toggle ==
    /\ MoveYellowTask("l221", "l220")
    /\ leds' = [leds EXCEPT !["yellow"] = ~@]
    /\ UNCHANGED yellowTaskFrame

\* A _blink_yellow that ends without its last command.
blink_yellow_last_kept(lit) == lit

\* _blink_yellow: leds["yellow"].off() after the loop
blink_yellow_last(lit) == FALSE

blink_yellow_off ==
    /\ MoveYellowTask("l228", "end")
    /\ leds' = [leds EXCEPT !["yellow"] = blink_yellow_last(@)]
    /\ UNCHANGED yellowTaskFrame

\* _flash_yellow: while yellow_flash:
flash_yellow_test ==
    /\ MoveYellowTask("l254", IF yellow_flash THEN "l255" ELSE "end")
    /\ UNCHANGED <<yellowTaskFrame, leds>>

\* _flash_yellow: leds["yellow"].on(); time.sleep(interval)
flash_yellow_on ==
    /\ MoveYellowTask("l255", "l257")
    /\ leds' = [leds EXCEPT !["yellow"] = TRUE]
    /\ UNCHANGED yellowTaskFrame

\* _flash_yellow: leds["yellow"].off(); time.sleep(interval)
flash_yellow_off ==
    /\ MoveYellowTask("l257", "l254")
    /\ leds' = [leds EXCEPT !["yellow"] = FALSE]
    /\ UNCHANGED yellowTaskFrame

YellowTaskStep ==
    \/ blink_yellow_test
    \/ blink_yellow_toggle
    \/ blink_yellow_off
    \/ flash_yellow_test
    \/ flash_yellow_on
    \/ flash_yellow_off

NextYellow ==
    \/ main_register_callbacks
    \/ main_start_handler
    \/ Y_motion_detected
    \/ motion_led_on_start_red
    \/ Y_motion_led_on_stamp
    \/ Y_motion_led_on_check_cooldown
    \/ Y_start_yellow_blink_flag
    \/ Y_start_yellow_blink_thread
    \/ motion_stopped
    \/ motion_led_off_stop_red
    \/ motion_led_off_stop_yellow_blink
    \/ Y_motion_led_off_clear
    \/ \E h \in HandlerThreads : handle_motion_read_start(h)
    \/ \E h \in HandlerThreads : handle_motion_read_cooldown(h)
    \/ \E h \in HandlerThreads : Y_handle_motion_duration(h)
    \/ \E h \in HandlerThreads : handle_motion_stop_yellow_blink(h)
    \/ \E h \in HandlerThreads : Y_start_flash_yellow_flag(h)
    \/ \E h \in HandlerThreads : Y_start_flash_yellow_thread(h)
    \/ \E h \in HandlerThreads : Y_run_ends(h)
    \/ \E h \in HandlerThreads : Y_stop_flash_yellow_flag(h)
    \/ \E h \in HandlerThreads : Y_stop_flash_yellow_off(h)
    \/ \E h \in HandlerThreads : handle_motion_set_cooldown(h)
    \/ \E h \in HandlerThreads : handle_motion_start_cooldown_timer(h)
    \/ \E h \in HandlerThreads : handle_motion_reset_motion_timer(h)
    \/ \E h \in HandlerThreads : handle_motion_sleep(h)
    \/ \E tm \in timers : Y_cooldown_timer(tm)
    \/ blink_yellow_test
    \/ blink_yellow_toggle
    \/ blink_yellow_off
    \/ flash_yellow_test
    \/ flash_yellow_on
    \/ flash_yellow_off

SpecYellow == Init /\ [][NextYellow]_vars

\* Every started thread is scheduled and every time.sleep in it ends.
SpecYellowFair == SpecYellow /\ WF_vars(YellowTaskStep)

(***************************************************************************)
(* cleanup(): called by the SIGINT handler, and, as its exit(0) ends the   *)
(* interpreter, once more by atexit.                                       *)
(***************************************************************************)
\* leds.values() in the order of LED_PINS.
LedOrder == <<"red", "yellow", "green">>

cleanupFrame == <<mainPc, pirPc, pirActive, motion_start_time, cooldown_active,
                  yellow_blinking, yellow_flash, hpc, email_sent, slept, timers,
                  greenThreads, logLines, obsVars, yellowVars>>

\* An except clause that lets the error leave cleanup().
except_reraise(next) == "raised"

\* except Exception as e: logging.warning(...): cleanup() goes on.
except_warning(next) == next

\* One release step inside its try block: it is attempted, and it either
\* succeeds or raises.
ReleaseStep(step, ok, next) ==
    /\ attempted' = attempted \cup {step}
    /\ failed' = IF ok THEN failed ELSE failed \cup {step}
    /\ cleanupPc' = IF ok THEN next ELSE except_warning(next)
    /\ cleanupRaised' = (cleanupRaised \/ cleanupPc' = "raised")

\* signal.signal(SIGINT, lambda sig, frame: cleanup()): Ctrl-C arrives.
sigint_cleanup ==
    /\ cleanupCall = 0
    /\ cleanupCall' = 1
    /\ cleanupPc' = "l387"
    /\ UNCHANGED <<cleanupFrame, leds, cleanupLed, attempted, failed, closed,
                   picam2, cleanupRaised>>

\* atexit.register(cleanup): the interpreter is ending after the first call.
atexit_cleanup ==
    /\ cleanupCall = 1
    /\ cleanupPc \in {"exited", "raised"}
    /\ cleanupCall' = 2
    /\ cleanupPc' = "l387"
    /\ attempted' = {}
    /\ failed' = {}
    /\ UNCHANGED <<cleanupFrame, leds, cleanupLed, closed, picam2,
                   cleanupRaised>>

\* preview_stop_event.set(); time.sleep(0.2)
cleanup_stop_preview ==
    /\ cleanupPc = "l387"
    /\ cleanupPc' = "l393"
    /\ cleanupLed' = 1
    /\ UNCHANGED <<cleanupFrame, leds, cleanupCall, attempted, failed, closed,
                   picam2, cleanupRaised>>

\* led.off(): on a closed device it raises GPIODeviceClosed.
cleanup_led_off ==
    /\ cleanupPc = "l393"
    /\ \E ok \in BOOLEAN :
         /\ ok => LedOrder[cleanupLed] \notin closed
         /\ ReleaseStep(<<"off", LedOrder[cleanupLed]>>, ok, "l397")
         /\ leds' = IF ok THEN [leds EXCEPT ![LedOrder[cleanupLed]] = FALSE]
                          ELSE leds
    /\ UNCHANGED <<cleanupFrame, cleanupCall, cleanupLed, closed, picam2>>

\* led.close(), then the next LED or the PIR sensor.
cleanup_led_close ==
    /\ cleanupPc = "l397"
    /\ \E ok \in BOOLEAN :
         /\ ReleaseStep(<<"close", LedOrder[cleanupLed]>>, ok,
                        IF cleanupLed < Len(LedOrder) THEN "l393" ELSE "l403")
         /\ closed' = IF ok THEN closed \cup {LedOrder[cleanupLed]} ELSE closed
    /\ cleanupLed' = IF cleanupLed < Len(LedOrder) THEN cleanupLed + 1
                                                     ELSE cleanupLed
    /\ UNCHANGED <<cleanupFrame, leds, cleanupCall, picam2>>

\* pir.close()
cleanup_pir_close ==
    /\ cleanupPc = "l403"
    /\ \E ok \in BOOLEAN :
         /\ ReleaseStep(<<"close", "pir">>, ok, "l408")
         /\ closed' = IF ok THEN closed \cup {"pir"} ELSE closed
    /\ UNCHANGED <<cleanupFrame, leds, cleanupCall, cleanupLed, picam2>>

\* if picam2 is not None: picam2.stop(); picam2 = None
cleanup_camera_stop ==
    /\ cleanupPc = "l408"
    /\ IF picam2
         THEN \E ok \in BOOLEAN :
                 /\ ReleaseStep(<<"stop", "camera">>, ok, "l417")
                 /\ picam2' = ~ok
         ELSE /\ cleanupPc' = "l417"
              /\ UNCHANGED <<attempted, failed, picam2, cleanupRaised>>
    /\ UNCHANGED <<cleanupFrame, leds, cleanupCall, cleanupLed, closed>>

\* exit(0): SystemExit ends the main thread, or is swallowed by atexit.
cleanup_exit ==
    /\ cleanupPc = "l417"
    /\ cleanupPc' = "exited"
    /\ UNCHANGED <<cleanupFrame, leds, cleanupCall, cleanupLed, attempted,
                   failed, closed, picam2, cleanupRaised>>

\* The program up to Ctrl-C: main() and the first sensor callback, which
\* lights the red LED.
NextCleanup ==
    \/ cleanupCall = 0 /\ main_register_callbacks
    \/ cleanupCall = 0 /\ main_start_handler
    \/ cleanupCall = 0 /\ Y_motion_detected
    \/ cleanupCall = 0 /\ motion_led_on_start_red
    \/ sigint_cleanup
    \/ atexit_cleanup
    \/ cleanup_stop_preview
    \/ cleanup_led_off
    \/ cleanup_led_close
    \/ cleanup_pir_close
    \/ cleanup_camera_stop
    \/ cleanup_exit

SpecCleanup == Init /\ [][NextCleanup]_vars

(***************************************************************************)
(* Properties.                                                             *)
(***************************************************************************)
FinalOutcomes == {"Success", "CaptureFailed", "NotifyFailed"}
FailedOutcomes == {"CaptureFailed", "NotifyFailed"}

\* Handler positions past the threshold decision for a stamp, before the
\* take_photo call.
CommittedPcs == {"l451", "l453", "l456"}

\* Some handler has decided to run for session s and has not yet called
\* take_photo.
Committed(s) ==
    \E h \in HandlerThreads : hpc[h] \in CommittedPcs /\ hSess[h] = s

\* C1: every motion session that lasted at least MOTION_THRESHOLD_SECONDS and
\* was stamped with no cooldown active and no run in flight gets exactly one
\* take_photo attempt, wherever the handler's polls fall.  Stated for ended
\* sessions once no handler can still act for them, with every handler alive.
C1_ExactlyOneRunPerLongSession ==
    \A s \in Sessions :
        ( /\ sessEnded[s]
          /\ sessLong[s]
          /\ sessClean[s]
          /\ ~Committed(s)
          /\ \A h \in MainHandlerThreads : hpc[h] # "dead" )
        => runs[s] = 1

\* C2: a session shorter than MOTION_THRESHOLD_SECONDS never gets a take_photo
\* attempt, and once motion_led_off has returned the machine is idle:
\* motion_start_time is None, the red LED is off, no yellow blink is requested.
C2_ShortSessionNoRunAndIdle ==
    /\ \A s \in Sessions :
         (sessEnded[s] /\ ~sessLong[s]) => (runs[s] = 0 /\ ~Committed(s))
    /\ (pirPc = "idle" /\ ~pirActive /\ sessCount > 0)
         => /\ motion_start_time = None
            /\ ~leds["red"]
            /\ ~yellow_blinking

\* A short session has ended and the handler has polled since.
C2_Witness ==
    /\ sessEnded[1]
    /\ ~sessLong[1]
    /\ pirPc = "idle"
    /\ ~pirActive
    /\ hpc[1] = "l468"
    /\ slept[1]

\* C3: while cooldown_active is true no handler is committed to a run or about
\* to call take_photo, whatever motion events are delivered.
C3_NoRunInitiatedInCooldown ==
    \A h \in HandlerThreads : cooldown_active => hpc[h] \notin CommittedPcs

\* Motion has lasted the threshold while the cooldown is active, and the
\* handler has polled and gone back to sleep.
C3_Witness ==
    /\ cooldown_active
    /\ pirActive
    /\ motion_start_time # None
    /\ motion_start_time[1] >= MOTION_THRESHOLD_SECONDS
    /\ hpc[1] = "l468"
    /\ outcome[1] = "none"

\* C4: a session whose motion_led_on found cooldown_active true never gets a
\* take_photo attempt, however long the motion continues.
C4_CooldownSessionNeverRuns ==
    \A s \in Sessions : sessInCooldown[s] => runs[s] = 0

\* C5: every completed run, whatever its outcome, has set cooldown_active and
\* started exactly one cooldown_timer, and cooldown_active stays true until
\* COOLDOWN_DURATION_SECONDS have passed since that start.
C5_OneFullCooldownPerRun ==
    /\ \A h \in HandlerThreads :
         /\ (hpc[h] = "l468" /\ outcome[h] \in FinalOutcomes)
              => runTimers[h] = 1
         /\ hpc[h] \in {"l466", "l467"} => cooldown_active
         /\ hpc[h] \in FinallyPcs => outcome[h] \in FinalOutcomes
    /\ cooldownElapsed < COOLDOWN_DURATION_SECONDS => cooldown_active

\* One second before the end of a cooldown window, with motion present.
C5_Witness ==
    /\ cooldown_active
    /\ cooldownElapsed = COOLDOWN_DURATION_SECONDS - 1
    /\ timers # {}
    /\ pirActive

\* The step that ends the finally block of a failed run.
FailedRunEnds(h) ==
    /\ hpc[h] = "l467"
    /\ outcome[h] \in FailedOutcomes
    /\ hpc'[h] # "l467"

\* C6: a run in which take_photo or send_email raised still goes through the
\* finally block, and when the block ends the yellow flash is stopped,
\* cooldown_active is set, a cooldown_timer is pending, motion_start_time is
\* None and the handler is back in its polling loop.
C6_FailureStillCoolsDown ==
    /\ [](\A h \in HandlerThreads :
            outcome[h] \in FailedOutcomes => hpc[h] \in FinallyPcs \cup {"l468"})
    /\ [][\A h \in HandlerThreads :
            FailedRunEnds(h) =>
                /\ hpc'[h] = "l468"
                /\ ~yellow_flash'
                /\ cooldown_active'
                /\ timers' # {}
                /\ motion_start_time' = None]_vars

\* After a run that left email_sent False, the handler has passed the
\* threshold check again and is starting another run.
C6_Witness ==
    \E h \in HandlerThreads :
        /\ hpc[h] = "l453"
        /\ ~email_sent[h]
        /\ \E s \in Sessions : runs[s] >= 1

\* C7 as claimed: a run appends a line to LOG_FILE exactly when it ends in
\* Success; a run that ends CaptureFailed or NotifyFailed appends nothing.
C7_LogOnlyOnSuccess ==
    \A h \in HandlerThreads :
        outcome[h] \in FinalOutcomes
        => runLines[h] = (IF outcome[h] = "Success" THEN 1 ELSE 0)

\* C7 amended: a run appends a line exactly when take_photo returned and the
\* append in log_photo_path did not raise, whether or not send_email then
\* succeeds; a run that ends CaptureFailed appends nothing.
C7_LogOnPhotoSaved ==
    \A h \in HandlerThreads :
        /\ outcome[h] \in {"running", "CaptureFailed"}
             => (runLines[h] = 0 /\ logWrite[h] = "none")
        /\ outcome[h] \in {"captured", "NotifyFailed", "Success"}
             => /\ logWrite[h] \in {"ok", "raised"}
                /\ runLines[h] = (IF logWrite[h] = "ok" THEN 1 ELSE 0)

\* A run that ended NotifyFailed has appended its line.
C7_Witness ==
    \E h \in HandlerThreads :
        outcome[h] = "NotifyFailed" /\ runLines[h] = 1

\* C8: no take_photo attempt is started for a session that motion_led_off has
\* already cleared.
C8_NoRunAfterClear == staleRuns = 0

\* C9: at most one handler is inside the take_photo / send_email sequence.
C9_OneRunAtATime ==
    Cardinality({h \in HandlerThreads : hpc[h] \in RunPcs}) <= 1

\* A run is in send_email while motion is still present.
C9_Witness ==
    \E h \in HandlerThreads : hpc[h] = "send_email" /\ pirActive

\* C10: flash_green is called exactly once in a run that ended in Success and
\* never in a run in which take_photo or send_email failed.
C10_GreenFlashIffSuccess ==
    \A h \in HandlerThreads :
        /\ hpc[h] \in {"take_photo", "send_email", "l462"} => runGreen[h] = 0
        /\ (outcome[h] \in FinalOutcomes /\ hpc[h] \in {"l464", "l465", "l466", "l467", "l468"})
             => runGreen[h] = (IF outcome[h] = "Success" THEN 1 ELSE 0)

\* A successful run has left the finally block with its green flash started.
C10_Witness ==
    \E h \in HandlerThreads :
        /\ hpc[h] = "l468"
        /\ outcome[h] = "Success"
        /\ runGreen[h] = 1

\* C11: within one run the steps are sequential and unretried: send_email is
\* attempted only after take_photo has returned, and the handler calls each
\* of the two at most once between two of its wake-ups.
C11_SequentialUnretried ==
    \A h \in HandlerThreads :
        /\ attempts[h].photo <= 1
        /\ attempts[h].email <= 1
        /\ attempts[h].email <= attempts[h].photo
        /\ hpc[h] = "send_email" => outcome[h] = "captured"
        /\ attempts[h].email = 1 =>
              outcome[h] \in {"captured", "NotifyFailed", "Success"}
        /\ outcome[h] = "CaptureFailed" => attempts[h].email = 0

\* A run whose send_email failed has ended with one call of each.
C11_Witness ==
    \E h \in HandlerThreads :
        /\ hpc[h] = "l468"
        /\ outcome[h] = "NotifyFailed"
        /\ attempts[h] = [photo |-> 1, email |-> 1]

\* The callback thread is past start_red of motion_led_on and not yet past
\* stop_red of the following motion_led_off.
RedExpected ==
    \/ pirPc \in {"l194", "l195", "l196", "l204"}
    \/ pirPc = "idle" /\ pirActive

\* C14: the red LED is lit exactly from motion_led_on's start_red until the
\* next motion_led_off's stop_red, and dark otherwise: no step of the handler,
\* of a cooldown_timer or of a flash thread changes it.
C14_RedFollowsMotion == leds["red"] = RedExpected

\* Motion goes on while a run is in flight: the red LED is still lit.
C14_Witness ==
    /\ pirPc = "idle"
    /\ pirActive
    /\ leds["red"]
    /\ \E h \in HandlerThreads : hpc[h] = "send_email"

\* C12: on the yellow channel at most one blink or flash thread is alive at
\* any time, and whenever start_yellow_blink or start_flash_yellow starts a
\* thread every earlier _blink_yellow / _flash_yellow thread has ended.
C12_OneYellowTask ==
    /\ LiveYellowTasks <= 1
    /\ yellowStarts # "overlap"

\* Neither yellow pattern is requested.
YellowCancelled == ~yellow_blinking /\ ~yellow_flash

\* C13: when the yellow blink has been cancelled and no yellow pattern is
\* started again, the yellow threads end and leave the LED off: whenever no
\* yellow thread is alive the LED is off, and from every state in which no
\* pattern is requested either a pattern is requested again or all yellow
\* threads have ended with the LED off.
C13_YellowEndsOff ==
    /\ [](LiveYellowTasks = 0 => ~leds["yellow"])
    /\ YellowCancelled ~>
          (~YellowCancelled \/ (LiveYellowTasks = 0 /\ ~leds["yellow"]))

\* The blink was cancelled in mid-cycle: the LED is lit and a _blink_yellow
\* thread is about to issue its last off().
C13_Witness ==
    /\ YellowCancelled
    /\ leds["yellow"]
    /\ yellowTasks["l228"] > 0
    /\ pirPc = "idle"

\* The release steps cleanup() makes for the LEDs and the PIR sensor.
LedPirSteps ==
    {<<"off", LedOrder[i]>> : i \in 1..Len(LedOrder)}
    \cup {<<"close", LedOrder[i]>> : i \in 1..Len(LedOrder)}
    \cup {<<"close", "pir">>}

\* C15: cleanup is best-effort per resource: whichever release steps raise,
\* a call of cleanup that reaches its end has attempted every LED off and
\* close and the PIR close, and the camera stop unless the camera is already
\* released; no call, the second included, lets an error escape.
C15_CleanupBestEffort ==
    /\ ~cleanupRaised
    /\ cleanupPc # "raised"
    /\ cleanupPc \in {"l417", "exited"} =>
          /\ LedPirSteps \subseteq attempted
          /\ picam2 => <<"stop", "camera">> \in attempted

\* The second call of cleanup has ended; its very first release step and
\* the camera stop raised, and every step was attempted all the same.
C15_Witness ==
    /\ cleanupCall = 2
    /\ cleanupPc = "exited"
    /\ <<"off", "red">> \in failed
    /\ <<"stop", "camera">> \in failed
    /\ attempted = LedPirSteps \cup {<<"stop", "camera">>}

C17_NoBlinkInCooldown == cooldown_active => ~yellow_blinking

\* Handler positions from the try block to the call of stop_flash_yellow.
FlashingPcs == {"l456", "take_photo", "send_email", "l462", "l464"}

\* C18 as stated: from the trigger to the end of the run the red LED has
\* been set off and the yellow flash is requested.
C18_RedOffAndFlashDuringRun ==
    \A h \in MainHandlerThreads :
        hpc[h] \in FlashingPcs => ~leds["red"] /\ yellow_flash

\* C18, amended: when a run is triggered the yellow flash is requested
\* before take_photo is called and stays requested until the finally block
\* stops it, so that it is stopped when the run has completed whatever its
\* outcome; the handler leaves the red LED as the sensor callbacks set it.
C18_FlashDuringRun ==
    \A h \in MainHandlerThreads :
        /\ hpc[h] \in FlashingPcs => yellow_flash
        /\ hpc[h] \in {"l465", "l466", "l467"} => ~yellow_flash
        /\ hpc[h] = "l468" /\ outcome[h] \in FinalOutcomes => ~yellow_flash
        /\ hpc[h] \in InFlightPcs => leds["red"] = RedExpected

\* A run whose send_email failed has completed while the motion goes on: the
\* flash is stopped and the red LED is still lit.
C18_Witness ==
    \E h \in MainHandlerThreads :
        /\ hpc[h] = "l468"
        /\ outcome[h] = "NotifyFailed"
        /\ ~yellow_flash
        /\ leds["red"]

\* C19: every cooldown ends: whenever cooldown_active is true it becomes
\* false again, and at that moment no run is in flight and no handler has
\* decided on a run.
C19_CooldownEnds ==
    /\ cooldown_active ~> ~cooldown_active
    /\ [][cooldown_active /\ ~cooldown_active' =>
             \A h \in MainHandlerThreads : hpc'[h] \notin InFlightPcs]_vars

\* After the cooldown of the run for session 1 a second session, stamped
\* with no cooldown and no run in flight, has triggered a run of its own.
C19_Witness ==
    /\ runs[1] = 1
    /\ sessClean[2]
    /\ runs[2] = 1
    /\ \E h \in MainHandlerThreads : hpc[h] = "take_photo" /\ hSess[h] = 2

\* C20: the handle_motion loop never terminates: the subtraction of line 449
\* always finds a stamp, so no handler thread is ended by the TypeError.
C20_HandlerNeverDies == \A h \in HandlerThreads : hpc[h] # "dead"

\* C21: at most one cooldown_timer thread is pending at any time, and it is
\* the one started for the current cooldown window: while it sleeps
\* cooldown_active is true, and what is left of its sleep is what is left
\* of COOLDOWN_DURATION_SECONDS since the window's timer was started, so
\* that no timer of an earlier window clears the flag early.
C21_OneTimerPending ==
    /\ Cardinality(timers) <= 1
    /\ timers # {} => cooldown_active
    /\ \A tm \in timers :
         tm.remaining = COOLDOWN_DURATION_SECONDS - cooldownElapsed

\* The second cooldown window: both sessions have had their run, the timer
\* of the first window is gone and the timer of the second has
\* MOTION_THRESHOLD_SECONDS left to sleep.
C21_Witness ==
    /\ runs[1] = 1
    /\ runs[2] = 1
    /\ cooldown_active
    /\ Cardinality(timers) = 1
    /\ cooldownElapsed = COOLDOWN_DURATION_SECONDS - MOTION_THRESHOLD_SECONDS
    /\ \A h \in MainHandlerThreads : hpc[h] = "l468"
====
